---- MODULE Spec2Model ----
(***************************************************************************)
(* A model of the slime editor: Row (src/src/row.rs), Document             *)
(* (src/src/document.rs) and Editor (src/src/editor.rs).                   *)
(*                                                                         *)
(* A String is a sequence of characters (Unicode scalar values).  Three    *)
(* kinds of character are told apart, because the code addresses a line by *)
(* grapheme cluster while it inserts by character:                         *)
(*   "a"   an ordinary base character, a grapheme cluster of its own;      *)
(*   "m"   a combining mark (Grapheme_Extend): it joins the cluster of the *)
(*         character before it;                                            *)
(*   "\n"  the newline, a control character: a cluster of its own, or the   *)
(*         second half of the cluster "\r\n";                               *)
(*   "\r"  the carriage return, a control character.                        *)
(***************************************************************************)
EXTENDS Integers, Sequences, FiniteSets, TLC

\* ------------------------------------------------------------------ bounds
\* Most rows a document holds in the model.
MaxRows == 3
\* Most characters a document holds in the model, summed over its rows.
MaxChars == 3
\* The widest and the highest terminal of the model (two rows of the height
\* are the status bar and the message bar).
MaxWidth == 2
MaxHeight == 4
\* Most characters typed into a prompt.
MaxTyped == 1
\* Most rows and most characters of a document edited through the key
\* handlers of the editor.
EdMaxRows == 2
EdMaxChars == 2
\* The largest row the cursor is put on where scroll() is checked alone.
ScrollMax == 5

NL == "\n"
CR == "\r"
\* The characters a key press or a file can bring in, the newline apart.
Chars == {"a", "m"}
\* The texts insert_str is called with.
Texts == {<<"a">>, <<"m", "a">>}
XRange == 0..MaxChars
YRange == 0..MaxRows
Positions == [x : XRange, y : YRange]

VARIABLES
  rows,     \* Document.rows: a sequence of Row, each [string, len]
  dirty,    \* Document.dirty
  path,     \* Document.path, an Option<String>: [some, name]
  call,     \* the last call made on the document, its arguments and the state before it
  cursor_position,  \* Editor.cursor_position
  cursor_offset,    \* Editor.cursor_offset
  size,             \* Terminal.size: [width, height]
  should_quit,      \* Editor.should_quit
  quit_times,       \* Editor.quit_times
  status_message,   \* Editor.status_message.text
  mode,             \* where the editor waits for its next event: "main" (Editor::run),
                    \* "search" or "save_as" (Editor::prompt), or "exited"
  prompt_result,    \* the local `result` of Editor::prompt: the text typed so far
  old_position      \* the local `old_position` of Editor::search

docvars == <<rows, dirty, path>>
edvars == <<cursor_position, cursor_offset, size, should_quit, quit_times,
            status_message, mode, prompt_result, old_position>>
vars == <<rows, dirty, path, call, cursor_position, cursor_offset, size, should_quit,
          quit_times, status_message, mode, prompt_result, old_position>>

\* ------------------------------------------------------------- sequences
Min(a, b) == IF a < b THEN a ELSE b
Max(a, b) == IF a > b THEN a ELSE b

\* Iterator::take(n) and Iterator::skip(n) on a sequence
Take(s, n) == SubSeq(s, 1, Min(n, Len(s)))
Skip(s, n) == SubSeq(s, Min(n, Len(s)) + 1, Len(s))

RECURSIVE Collect(_)
\* collect::<String>() of an iterator of clusters: their concatenation
Collect(cs) == IF cs = <<>> THEN <<>> ELSE Head(cs) \o Collect(Tail(cs))

\* ------------------------------------------------------- unicode clusters
IsExtend(c) == c = "m"
IsControl(c) == c \in {NL, CR}

RECURSIVE graphemes(_)
\* str::graphemes(true): the extended grapheme clusters of a string, in order.
\* A combining mark does not start a cluster unless it is the first character
\* or follows a control character, and a newline right after a carriage
\* return is one cluster with it (rules GB3, GB4, GB5, GB9 of UAX #29).
graphemes(s) ==
  IF s = <<>> THEN <<>>
  ELSE LET g == graphemes(SubSeq(s, 1, Len(s) - 1))
           c == s[Len(s)]
       IN IF /\ g # <<>>
             /\ \/ IsExtend(c) /\ ~IsControl(g[Len(g)][Len(g[Len(g)])])
                \/ c = NL /\ g[Len(g)] = <<CR>>
          THEN [g EXCEPT ![Len(g)] = @ \o <<c>>]
          ELSE Append(g, <<c>>)

\* ------------------------------------------------------------------- Row
\* Row::update_len with the characters counted, not the clusters
update_len_chars(row) == [row EXCEPT !.len = Len(row.string)]

\* Row::update_len
update_len(row) == [row EXCEPT !.len = Len(graphemes(row.string))]

\* Row::default() (derived): the empty string with len 0
Row_default == [string |-> <<>>, len |-> 0]

\* impl From<&str> for Row
Row_from(s) == update_len([string |-> s, len |-> 0])

\* Row::size
Row_size(row) == Len(graphemes(row.string))

\* Row::insert
Row_insert(row, at, ch) ==
  IF at >= row.len
  THEN update_len([row EXCEPT !.string = Append(@, ch)])
  ELSE LET result    == Collect(Take(graphemes(row.string), at))
           remainder == Collect(Skip(graphemes(row.string), at))
       IN update_len([row EXCEPT !.string = (result \o <<ch>>) \o remainder])

\* Row::insert_str: the rebuilt string of the second branch is dropped at the
\* end of the block, self.string is assigned in neither branch of it
Row_insert_str(row, at, s) ==
  IF at >= row.len
  THEN update_len([row EXCEPT !.string = @ \o s])
  ELSE update_len(row)

\* Row::delete with the remainder taken from cluster `at` on, not from the
\* cluster after it: nothing is removed
Row_delete_skip_at(row, at) ==
  IF at < row.len
  THEN LET result    == Collect(Take(graphemes(row.string), at))
           remainder == Collect(Skip(graphemes(row.string), at))
       IN update_len([row EXCEPT !.string = result \o remainder])
  ELSE row

\* Row::delete
Row_delete(row, at) ==
  IF at < row.len
  THEN LET result    == Collect(Take(graphemes(row.string), at))
           remainder == Collect(Skip(graphemes(row.string), at + 1))
       IN update_len([row EXCEPT !.string = result \o remainder])
  ELSE row

\* Row::delete_slice with `to < self.len` for `to <= self.len`: a slice that
\* ends at the end of the row is refused
Row_delete_slice_strict(row, from, to) ==
  IF to > from /\ to < row.len
  THEN LET removed_part == Collect(Take(Skip(graphemes(row.string), from), to - from))
           result       == Collect(Take(graphemes(row.string), from))
           remainder    == Collect(Skip(graphemes(row.string), (from + to) - from))
       IN [row |-> update_len([row EXCEPT !.string = result \o remainder]),
           some |-> TRUE, slice |-> removed_part]
  ELSE [row |-> row, some |-> FALSE, slice |-> <<>>]

\* Row::delete_slice: the row afterwards and the returned Option<String>
Row_delete_slice(row, from, to) ==
  IF to > from /\ to <= row.len
  THEN LET removed_part == Collect(Take(Skip(graphemes(row.string), from), to - from))
           result       == Collect(Take(graphemes(row.string), from))
           remainder    == Collect(Skip(graphemes(row.string), (from + to) - from))
       IN [row |-> update_len([row EXCEPT !.string = result \o remainder]),
           some |-> TRUE, slice |-> removed_part]
  ELSE [row |-> row, some |-> FALSE, slice |-> <<>>]

\* -------------------------------------------------------------- Document
\* Document::rows_size
rows_size(rs) == Len(rs)

\* Vec::insert(index, element)
VecInsert(v, index, e) == (SubSeq(v, 1, index) \o <<e>>) \o SubSeq(v, index + 1, Len(v))
\* Vec::remove(index)
VecRemove(v, index) == SubSeq(v, 1, index) \o SubSeq(v, index + 2, Len(v))

\* Document::insert_enter_key with the new row put at index at.y, before the
\* row it was cut from
insert_enter_key_at_y(rs, at) ==
  IF at.y < rows_size(rs)
  THEN LET row     == rs[at.y + 1]
           cut     == Row_delete_slice(row, at.x, Row_size(row))
           new_row == IF cut.some THEN Row_insert_str(Row_default, 0, cut.slice)
                      ELSE Row_default
       IN VecInsert([rs EXCEPT ![at.y + 1] = cut.row], at.y, new_row)
  ELSE rs

\* Document::insert_enter_key
insert_enter_key(rs, at) ==
  IF at.y < rows_size(rs)
  THEN LET row     == rs[at.y + 1]
           cut     == Row_delete_slice(row, at.x, Row_size(row))
           new_row == IF cut.some THEN Row_insert_str(Row_default, 0, cut.slice)
                      ELSE Row_default
       IN VecInsert([rs EXCEPT ![at.y + 1] = cut.row], at.y + 1, new_row)
  ELSE rs

\* Document::insert without the arm for the newline: the newline is inserted
\* into the row as any character is
Document_insert_newline_kept(rs, d, at, ch) ==
  IF at.y > rows_size(rs) THEN [rows |-> rs, dirty |-> d]
  ELSE IF at.y = rows_size(rs)
       THEN [rows |-> Append(rs, Row_insert(Row_default, 0, ch)), dirty |-> TRUE]
       ELSE [rows |-> [rs EXCEPT ![at.y + 1] = Row_insert(@, at.x, ch)], dirty |-> TRUE]

\* Document::insert with the row of a position one past the end put in front
\* of the rows, not after them
Document_insert_push_front(rs, d, at, ch) ==
  IF at.y > rows_size(rs) THEN [rows |-> rs, dirty |-> d]
  ELSE IF ch = NL THEN [rows |-> insert_enter_key(rs, at), dirty |-> TRUE]
  ELSE IF at.y = rows_size(rs)
       THEN [rows |-> <<Row_insert(Row_default, 0, ch)>> \o rs, dirty |-> TRUE]
       ELSE [rows |-> [rs EXCEPT ![at.y + 1] = Row_insert(@, at.x, ch)], dirty |-> TRUE]

\* Document::insert: the document afterwards, as [rows, dirty]
Document_insert(rs, d, at, ch) ==
  IF at.y > rows_size(rs) THEN [rows |-> rs, dirty |-> d]
  ELSE IF ch = NL THEN [rows |-> insert_enter_key(rs, at), dirty |-> TRUE]
  ELSE IF at.y = rows_size(rs)
       THEN [rows |-> Append(rs, Row_insert(Row_default, 0, ch)), dirty |-> TRUE]
       ELSE [rows |-> [rs EXCEPT ![at.y + 1] = Row_insert(@, at.x, ch)], dirty |-> TRUE]

\* Document::insert_str: dirty is not assigned
Document_insert_str(rs, d, at, s) ==
  IF at.y = rows_size(rs)
  THEN [rows |-> Append(rs, Row_insert_str(Row_default, 0, s)), dirty |-> d]
  ELSE IF at.y < rows_size(rs)
       THEN [rows |-> [rs EXCEPT ![at.y + 1] = Row_insert_str(@, at.x, s)], dirty |-> d]
       ELSE [rows |-> rs, dirty |-> d]

\* Document::delete with `at.x >= prev_row.size()` for `at.x == prev_row.size()`:
\* a delete beyond the end of a row merges the next row into it too
Document_delete_merge_beyond(rs, d, at) ==
  IF at.y < rows_size(rs)
  THEN IF at.y < rows_size(rs) - 1 /\ at.x >= Row_size(rs[at.y + 1])
       THEN LET prev_row == rs[at.y + 1]
                row      == rs[at.y + 2]
                merged   == Row_insert_str(prev_row, Row_size(prev_row), row.string)
            IN [rows |-> VecRemove([rs EXCEPT ![at.y + 1] = merged], at.y + 1),
                dirty |-> d]
       ELSE [rows |-> [rs EXCEPT ![at.y + 1] = Row_delete(@, at.x)], dirty |-> d]
  ELSE [rows |-> rs, dirty |-> d]

\* Document::delete with rows.remove(at.y) for rows.remove(at.y + 1): the
\* merged row is the one removed
Document_delete_remove_y(rs, d, at) ==
  IF at.y < rows_size(rs)
  THEN IF at.y < rows_size(rs) - 1 /\ at.x = Row_size(rs[at.y + 1])
       THEN LET prev_row == rs[at.y + 1]
                row      == rs[at.y + 2]
                merged   == Row_insert_str(prev_row, Row_size(prev_row), row.string)
            IN [rows |-> VecRemove([rs EXCEPT ![at.y + 1] = merged], at.y),
                dirty |-> d]
       ELSE [rows |-> [rs EXCEPT ![at.y + 1] = Row_delete(@, at.x)], dirty |-> d]
  ELSE [rows |-> rs, dirty |-> d]

\* Document::delete: dirty is not assigned
Document_delete(rs, d, at) ==
  IF at.y < rows_size(rs)
  THEN IF at.y < rows_size(rs) - 1 /\ at.x = Row_size(rs[at.y + 1])
       THEN LET prev_row == rs[at.y + 1]
                row      == rs[at.y + 2]
                merged   == Row_insert_str(prev_row, Row_size(prev_row), row.string)
            IN [rows |-> VecRemove([rs EXCEPT ![at.y + 1] = merged], at.y + 1),
                dirty |-> d]
       ELSE [rows |-> [rs EXCEPT ![at.y + 1] = Row_delete(@, at.x)], dirty |-> d]
  ELSE [rows |-> rs, dirty |-> d]

\* Option<String>
PathNone == [some |-> FALSE, name |-> <<>>]
PathSome(n) == [some |-> TRUE, name |-> n]

\* Document::save_to_disk: ok is whether File::create and every write_all
\* succeeded; without a path nothing is written and the call succeeds
Document_save_to_disk(d, p, ok) ==
  IF p.some /\ ~ok THEN [dirty |-> d, result |-> "Err"]
  ELSE [dirty |-> FALSE, result |-> "Ok"]

\* Document::save_to_disk with the newline written between two rows, none
\* after the last
RECURSIVE file_text_joined(_)
file_text_joined(rs) ==
  IF rs = <<>> THEN <<>>
  ELSE IF Len(rs) = 1 THEN Head(rs).string
  ELSE (Head(rs).string \o <<NL>>) \o file_text_joined(Tail(rs))

\* The bytes Document::save_to_disk hands to write_all, one call after the
\* other: every row and a newline after it
RECURSIVE file_text(_)
file_text(rs) ==
  IF rs = <<>> THEN <<>> ELSE (Head(rs).string \o <<NL>>) \o file_text(Tail(rs))

\* What the file system does to a save: nothing goes wrong, File::create
\* fails, or a write_all fails after n characters have reached the file
NoFailure == [at |-> "none", n |-> 0]
Failures(rs) ==
  {NoFailure, [at |-> "create", n |-> 0]}
    \cup {[at |-> "write", n |-> k] : k \in 0..(Len(file_text(rs)) - 1)}

\* A file that was not written, and the file of a name with a text
NoFile == [some |-> FALSE, name |-> <<>>, text |-> <<>>]
FileOf(n, t) == [some |-> TRUE, name |-> n, text |-> t]

\* Document::save_to_disk: the file the call leaves behind.  No file is
\* touched without a path or when File::create fails; File::create empties
\* the file, and the writes that succeed fill it
save_to_disk_file(rs, p, fail) ==
  IF ~p.some \/ fail.at = "create" THEN NoFile
  ELSE IF fail.at = "write" THEN FileOf(p.name, Take(file_text(rs), fail.n))
  ELSE FileOf(p.name, file_text(rs))

\* Document::row_mut / Document::row: Some exactly for an index below rows.len()
row_is_some(rs, index) == index < Len(rs)

\* Option<usize> / Option<Position<usize>>
None == [some |-> FALSE, x |-> 0, y |-> 0]
Some(px, py) == [some |-> TRUE, x |-> px, y |-> py]

\* The cluster offsets at which the clusters of query occur in the clusters g
Occurrences(g, q) ==
  {i \in 0..Len(g) : i + Len(q) <= Len(g) /\ SubSeq(g, i + 1, i + Len(q)) = q}

\* Row::find, which Document::find calls and row.rs does not define; modelled
\* from the specification of the per-line search:
\* nothing for an empty query or an offset beyond the length; Forward the
\* first occurrence of the query that starts at or after cluster `at`,
\* Backward the last occurrence that ends at or before cluster `at`
Row_find(row, query, at, direction) ==
  LET g    == graphemes(row.string)
      q    == graphemes(query)
      hits == IF direction = "Forward"
              THEN {i \in Occurrences(g, q) : i >= at}
              ELSE {i \in Occurrences(g, q) : i + Len(q) <= at}
  IN IF at > row.len \/ query = <<>> \/ hits = {} THEN None
     ELSE IF direction = "Forward"
          THEN Some(CHOOSE i \in hits : \A j \in hits : i <= j, 0)
          ELSE Some(CHOOSE i \in hits : \A j \in hits : i >= j, 0)

RECURSIVE find_loop(_, _, _, _, _)
\* The for loop of Document::find: n iterations are left and the search
\* stands at position
find_loop(rs, query, direction, position, n) ==
  IF n = 0 THEN None
  ELSE IF row_is_some(rs, position.y)
       THEN LET hit == Row_find(rs[position.y + 1], query, position.x, direction)
            IN IF hit.some THEN Some(hit.x, position.y)
               ELSE IF direction = "Forward"
                    THEN find_loop(rs, query, direction,
                                   [x |-> 0, y |-> position.y + 1], n - 1)
                    ELSE LET y == Max(position.y - 1, 0)
                         IN find_loop(rs, query, direction,
                                      [x |-> Row_size(rs[y + 1]), y |-> y], n - 1)
       ELSE None

\* Document::find with the forward scan ended one row early
Document_find_short(rs, query, at, direction) ==
  IF at.y > rows_size(rs) THEN None
  ELSE LET start == IF direction = "Forward" THEN at.y ELSE 0
           end   == IF direction = "Forward" THEN rows_size(rs) - 1 ELSE at.y + 1
       IN find_loop(rs, query, direction, [x |-> at.x, y |-> at.y], Max(end - start, 0))

\* Document::find
Document_find(rs, query, at, direction) ==
  IF at.y > rows_size(rs) THEN None
  ELSE LET start == IF direction = "Forward" THEN at.y ELSE 0
           end   == IF direction = "Forward" THEN rows_size(rs) ELSE at.y + 1
       IN find_loop(rs, query, direction, [x |-> at.x, y |-> at.y], Max(end - start, 0))

\* ------------------------------------------------- indices into self.rows
\* What a call does with an index or a usize that can panic: rows[i],
\* row_mut(i).unwrap(), rows.remove(i) and each element of a slice rows[i..j]
\* need i < n with n rows; rows.insert(i, ..) needs i <= n; a - b needs a >= b.
\* self.row(i) is Vec::get, which answers None out of range, and
\* saturating_sub stops at 0: neither is listed.
Index(i, n) == [kind |-> "index", a |-> i, b |-> n]
SliceOf(i, j, n) == {[kind |-> "slice", a |-> k, b |-> n] : k \in i..(j - 1)}
RemoveAt(i, n) == [kind |-> "remove", a |-> i, b |-> n]
InsertAt(i, n) == [kind |-> "insert", a |-> i, b |-> n]
Sub(a, b) == [kind |-> "sub", a |-> a, b |-> b]

\* Row::delete_slice: the subtractions it makes
Row_delete_slice_indexing(row, from, to) ==
  IF to > from /\ to <= row.len THEN {Sub(to, from), Sub(from + to, from)} ELSE {}

\* Document::insert_enter_key: the indices it uses
insert_enter_key_indexing(rs, at) ==
  IF at.y < rows_size(rs)
  THEN LET row == rs[at.y + 1]
       IN {Index(at.y, rows_size(rs))}
          \cup Row_delete_slice_indexing(row, at.x, Row_size(row))
          \cup {InsertAt(at.y + 1, rows_size(rs))}
  ELSE {}

\* Document::insert: the indices it uses
Document_insert_indexing(rs, at, ch) ==
  IF at.y > rows_size(rs) THEN {}
  ELSE IF ch = NL THEN insert_enter_key_indexing(rs, at)
  ELSE IF at.y = rows_size(rs) THEN {}
  ELSE IF at.y < rows_size(rs) THEN {Index(at.y, rows_size(rs))}
  ELSE {}

\* Document::insert_str: the indices it uses
Document_insert_str_indexing(rs, at) ==
  IF at.y = rows_size(rs) THEN {}
  ELSE IF at.y < rows_size(rs) THEN {Index(at.y, rows_size(rs))}
  ELSE {}

\* Document::delete with `at.y < self.rows_size()` for the guard of the merge,
\* `at.y < self.rows_size() - 1`: the indices it uses
Document_delete_indexing_last_row(rs, at) ==
  IF at.y < rows_size(rs)
  THEN {Sub(rows_size(rs), 1)}
       \cup IF at.y < rows_size(rs)
            THEN SliceOf(at.y, at.y + 2, rows_size(rs))
                 \cup IF at.x = Row_size(rs[at.y + 1])
                      THEN {RemoveAt(at.y + 1, rows_size(rs))}
                      ELSE {Index(at.y, rows_size(rs))}
            ELSE {Index(at.y, rows_size(rs))}
  ELSE {}

\* Document::delete: the indices it uses
Document_delete_indexing(rs, at) ==
  IF at.y < rows_size(rs)
  THEN {Sub(rows_size(rs), 1)}
       \cup IF at.y < rows_size(rs) - 1
            THEN SliceOf(at.y, at.y + 2, rows_size(rs))
                 \cup IF at.x = Row_size(rs[at.y + 1])
                      THEN {RemoveAt(at.y + 1, rows_size(rs))}
                      ELSE {Index(at.y, rows_size(rs))}
            ELSE {Index(at.y, rows_size(rs))}
  ELSE {}

RECURSIVE find_loop_indexing(_, _, _, _, _)
\* The for loop of Document::find: the indices it uses in the n iterations
\* that are left.  The row of the step back is looked at only where the index
\* exists; where it does not, the loop is at its end (the code would panic).
find_loop_indexing(rs, query, direction, position, n) ==
  IF n = 0 THEN {}
  ELSE IF row_is_some(rs, position.y)
       THEN LET hit == Row_find(rs[position.y + 1], query, position.x, direction)
            IN IF hit.some THEN {}
               ELSE IF direction = "Forward"
                    THEN find_loop_indexing(rs, query, direction,
                                            [x |-> 0, y |-> position.y + 1], n - 1)
                    ELSE LET y == Max(position.y - 1, 0)
                         IN {Index(y, rows_size(rs))}
                            \cup IF y < rows_size(rs)
                                 THEN find_loop_indexing(rs, query, direction,
                                        [x |-> Row_size(rs[y + 1]), y |-> y], n - 1)
                                 ELSE {}
       ELSE {}

\* Document::find: the indices it uses
Document_find_indexing(rs, query, at, direction) ==
  IF at.y > rows_size(rs) THEN {}
  ELSE LET start == IF direction = "Forward" THEN at.y ELSE 0
           end   == IF direction = "Forward" THEN rows_size(rs) ELSE at.y + 1
       IN find_loop_indexing(rs, query, direction, [x |-> at.x, y |-> at.y],
                             Max(end - start, 0))

\* ----------------------------------------------------------------- Editor
QUIT_TIMES == 3

Origin == [x |-> 0, y |-> 0]

\* usize::saturating_sub
saturating_sub(a, b) == IF a > b THEN a - b ELSE 0

\* Ord::clamp(min, max)
clamp(v, lo, hi) == IF v < lo THEN lo ELSE IF v > hi THEN hi ELSE v

\* Editor::scroll without the saturating_add(1): the cursor is left one past
\* the trailing edge
scroll_edge(cur, offset, sz) ==
  LET terminal_width  == sz.width
      terminal_height == saturating_sub(sz.height, 2)
      max_x == offset.x + terminal_width
      max_y == offset.y + terminal_height
  IN [x |-> IF cur.x >= max_x THEN saturating_sub(cur.x, terminal_width)
            ELSE IF cur.x < offset.x THEN cur.x ELSE offset.x,
      y |-> IF cur.y >= max_y THEN saturating_sub(cur.y, terminal_height)
            ELSE IF cur.y < offset.y THEN cur.y ELSE offset.y]

\* Editor::scroll: the new cursor_offset
scroll(cur, offset, sz) ==
  LET terminal_width  == sz.width
      terminal_height == saturating_sub(sz.height, 2)
      max_x == offset.x + terminal_width
      max_y == offset.y + terminal_height
  IN [x |-> IF cur.x >= max_x THEN saturating_sub(cur.x, terminal_width) + 1
            ELSE IF cur.x < offset.x THEN cur.x ELSE offset.x,
      y |-> IF cur.y >= max_y THEN saturating_sub(cur.y, terminal_height) + 1
            ELSE IF cur.y < offset.y THEN cur.y ELSE offset.y]

MoveKeys == {"Left", "Right", "Up", "Down", "Home", "End", "PageDown", "PageUp"}

\* Editor::process_move with Left at the start of a row gone to the start of
\* the row before, not to its end
move_step_left_to_start(cur, key, rs, sz) ==
  LET terminal_height == sz.height
      x == cur.x
      y == cur.y
  IN CASE key = "Left" ->
            IF x > 0 THEN [x |-> x - 1, y |-> y]
            ELSE IF y > 0 THEN [x |-> 0, y |-> y - 1]
                 ELSE [x |-> x, y |-> y]
       [] key = "Right" ->
            IF row_is_some(rs, y)
            THEN IF x < Row_size(rs[y + 1]) THEN [x |-> x + 1, y |-> y]
                 ELSE IF y < saturating_sub(rows_size(rs), 1) THEN [x |-> 0, y |-> y + 1]
                 ELSE [x |-> x, y |-> y]
            ELSE [x |-> 0, y |-> y]
       [] key = "Up" -> [x |-> x, y |-> saturating_sub(y, 1)]
       [] key = "Down" -> [x |-> x, y |-> y + 1]
       [] key = "Home" -> [x |-> 0, y |-> y]
       [] key = "End" ->
            [x |-> IF row_is_some(rs, y) THEN Row_size(rs[y + 1]) ELSE 0, y |-> y]
       [] key = "PageDown" -> [x |-> x, y |-> y + saturating_sub(terminal_height, 1)]
       [] key = "PageUp" ->
            [x |-> x, y |-> saturating_sub(y, saturating_sub(terminal_height, 1))]
       [] OTHER -> [x |-> x, y |-> y]

\* Editor::process_move, the match on the key: x and y before they are clamped
move_step(cur, key, rs, sz) ==
  LET terminal_height == sz.height
      x == cur.x
      y == cur.y
  IN CASE key = "Left" ->
            IF x > 0 THEN [x |-> x - 1, y |-> y]
            ELSE IF y > 0
                 THEN [x |-> IF row_is_some(rs, y - 1) THEN Row_size(rs[y]) ELSE 0,
                       y |-> y - 1]
                 ELSE [x |-> x, y |-> y]
       [] key = "Right" ->
            IF row_is_some(rs, y)
            THEN IF x < Row_size(rs[y + 1]) THEN [x |-> x + 1, y |-> y]
                 ELSE IF y < saturating_sub(rows_size(rs), 1) THEN [x |-> 0, y |-> y + 1]
                 ELSE [x |-> x, y |-> y]
            ELSE [x |-> 0, y |-> y]
       [] key = "Up" -> [x |-> x, y |-> saturating_sub(y, 1)]
       [] key = "Down" -> [x |-> x, y |-> y + 1]
       [] key = "Home" -> [x |-> 0, y |-> y]
       [] key = "End" ->
            [x |-> IF row_is_some(rs, y) THEN Row_size(rs[y + 1]) ELSE 0, y |-> y]
       [] key = "PageDown" -> [x |-> x, y |-> y + saturating_sub(terminal_height, 1)]
       [] key = "PageUp" ->
            [x |-> x, y |-> saturating_sub(y, saturating_sub(terminal_height, 1))]
       [] OTHER -> [x |-> x, y |-> y]

\* Editor::process_move with y clamped to rows_size, not to the last row
move_clamp_to_size(moved, rs) ==
  [x |-> IF row_is_some(rs, moved.y) THEN clamp(moved.x, 0, Row_size(rs[moved.y + 1]))
         ELSE 0,
   y |-> clamp(moved.y, 0, rows_size(rs))]

\* Editor::process_move, after the match: x is clamped to the row at the
\* unclamped y (0 without such a row), then y to the last row
move_clamp(moved, rs) ==
  [x |-> IF row_is_some(rs, moved.y) THEN clamp(moved.x, 0, Row_size(rs[moved.y + 1]))
         ELSE 0,
   y |-> clamp(moved.y, 0, saturating_sub(rows_size(rs), 1))]

\* Editor::process_move without the clamps after the match
process_move_unclamped(cur, key, rs, sz) == move_step(cur, key, rs, sz)

\* Editor::process_move: the new cursor_position
process_move(cur, key, rs, sz) == move_clamp(move_step(cur, key, rs, sz), rs)

\* A line that a newline ended, without the carriage return before that
\* newline if there is one
strip_cr(line) ==
  IF line # <<>> /\ line[Len(line)] = CR THEN SubSeq(line, 1, Len(line) - 1) ELSE line

\* str::lines(): the text split at each newline, the newline dropped and one
\* carriage return before it; a final line needs no newline and is taken as
\* it is, and a trailing newline starts no further line
RECURSIVE lines(_)
lines(contents) ==
  IF contents = <<>> THEN <<>>
  ELSE LET nls == {i \in 1..Len(contents) : contents[i] = NL}
       IN IF nls = {} THEN <<contents>>
          ELSE LET i == CHOOSE j \in nls : \A k \in nls : j <= k
               IN <<strip_cr(SubSeq(contents, 1, i - 1))>>
                    \o lines(SubSeq(contents, i + 1, Len(contents)))

\* Document::open, given the contents read from the file: one Row per line
Document_open(contents) == [i \in 1..Len(lines(contents)) |-> Row_from(lines(contents)[i])]

\* ------------------------------------------------------ the model's bounds
RECURSIVE TotalChars(_)
TotalChars(rs) == IF rs = <<>> THEN 0 ELSE Len(Head(rs).string) + TotalChars(Tail(rs))

\* A document the model holds: at most MaxRows rows and MaxChars characters
Fits(rs) == Len(rs) <= MaxRows /\ TotalChars(rs) <= MaxChars

\* A document the model edits through the editor
EdFits(rs) == Len(rs) <= EdMaxRows /\ TotalChars(rs) <= EdMaxChars

\* The name of the file given on the command line
FileName == <<"f">>

\* The file contents the model opens
FileContents == UNION {[1..n -> Chars \cup {NL}] : n \in 0..(MaxRows + MaxChars)}

\* ------------------------------------------------------- the call record
NoUndo == [op |-> "none", ch |-> "", pre |-> <<>>]
NoCall == [op |-> "none", at |-> [x |-> 0, y |-> 0], ch |-> "", s |-> <<>>,
           ok |-> TRUE, dir |-> "", pre |-> <<>>, preDirty |-> FALSE, result |-> "",
           found |-> None, undo |-> NoUndo, prePath |-> PathNone, written |-> NoFile,
           last |-> [x |-> 0, y |-> 0], prompt |-> "", presses |-> 0]

\* The record of an event of the editor: what the document and the cursor
\* were when its handling began
Began(op) == [NoCall EXCEPT !.op = op, !.at = cursor_position, !.pre = rows,
                            !.preDirty = dirty, !.prePath = path]

\* What a delete undoes: the insert made by the call just before it, when that
\* call was an insert at the same position
UndoOf(at) ==
  IF call.op = "insert" /\ call.at = at
  THEN [op |-> "insert", ch |-> call.ch, pre |-> call.pre]
  ELSE NoUndo

\* ------------------------------------------------------------------ Init
\* The terminal sizes of the model: the widest and highest, and one column
\* and one visible row
Sizes == {[width |-> MaxWidth, height |-> MaxHeight], [width |-> 1, height |-> 3]}

\* Document::default(), or Document::open(path) of a readable file
InitDocument ==
  /\ \/ /\ rows = <<>>
        /\ path = PathNone
     \/ /\ \E contents \in FileContents :
             /\ rows = Document_open(contents)
             /\ Fits(rows)
        /\ path = PathSome(FileName)
  /\ dirty = FALSE
  /\ call = NoCall

\* Editor::default(), given its document and the size of the terminal; the
\* document is the default one also when the file could not be opened
InitEditor(sz) ==
  /\ cursor_position = Origin
  /\ cursor_offset = Origin
  /\ size = sz
  /\ should_quit = FALSE
  /\ quit_times = QUIT_TIMES
  /\ \/ status_message = <<"HELP: Ctrl-C = exit">>
     \/ ~path.some /\ status_message = <<"ERR: Could not open file">>
  /\ mode = "main"
  /\ prompt_result = <<>>
  /\ old_position = Origin

\* A document on its own, the calls on it made by a caller other than the
\* key handlers of the editor
Init ==
  /\ InitDocument
  /\ InitEditor([width |-> MaxWidth, height |-> MaxHeight])
  /\ status_message = <<"HELP: Ctrl-C = exit">>

\* --------------------------------------------------------------- actions
\* The caller makes its calls one after the other.  The record of a call is
\* kept until the caller drops it (Return); the one call made while a record
\* is still held is the delete that follows an insert at the same position.
Idle == call.op = "none"

\* document.insert(&at, ch)
Insert ==
  /\ Idle
  /\ \E at \in Positions, ch \in Chars \cup {NL} :
       LET after == Document_insert(rows, dirty, at, ch) IN
       /\ Fits(after.rows)
       /\ rows' = after.rows
       /\ dirty' = after.dirty
       /\ call' = [NoCall EXCEPT !.op = "insert", !.at = at, !.ch = ch,
                                 !.pre = rows, !.preDirty = dirty]
       /\ UNCHANGED <<path, edvars>>

\* document.insert_str(&at, s)
InsertStr ==
  /\ Idle
  /\ \E at \in Positions, s \in Texts :
       LET after == Document_insert_str(rows, dirty, at, s) IN
       /\ TotalChars(rows) + Len(s) <= MaxChars
       /\ Fits(after.rows)
       /\ rows' = after.rows
       /\ dirty' = after.dirty
       /\ call' = [NoCall EXCEPT !.op = "insert_str", !.at = at, !.s = s,
                                 !.pre = rows, !.preDirty = dirty]
       /\ UNCHANGED <<path, edvars>>

\* document.delete(&at)
Delete ==
  \E at \in Positions :
    LET after == Document_delete(rows, dirty, at) IN
    /\ Idle \/ (call.op = "insert" /\ call.at = at)
    /\ rows' = after.rows
    /\ dirty' = after.dirty
    /\ call' = [NoCall EXCEPT !.op = "delete", !.at = at, !.pre = rows,
                              !.preDirty = dirty, !.undo = UndoOf(at)]
    /\ UNCHANGED <<path, edvars>>

\* document.save_to_disk(), the file system succeeding or failing
SaveToDisk ==
  /\ Idle
  /\ \E fail \in Failures(rows) :
       LET ok    == fail = NoFailure
           after == Document_save_to_disk(dirty, path, ok)
       IN
       /\ dirty' = after.dirty
       /\ call' = [NoCall EXCEPT !.op = "save_to_disk", !.ok = ok, !.pre = rows,
                                 !.preDirty = dirty, !.result = after.result,
                                 !.prePath = path,
                                 !.written = save_to_disk_file(rows, path, fail)]
       /\ UNCHANGED <<rows, path, edvars>>

\* The caller drops the record of its last call; the document is as it was
Return ==
  /\ ~Idle
  /\ call' = NoCall
  /\ UNCHANGED <<rows, dirty, path, edvars>>

Next == Insert \/ InsertStr \/ Delete \/ SaveToDisk \/ Return

Spec == Init /\ [][Next]_vars

\* The file contents opened before a save: text, carriage returns, newlines
SaveContents == UNION {[1..n -> {"a", CR, NL}] : n \in 0..(MaxChars + 1)}

\* Document::open(path) of the file that the save just made wrote
Open ==
  /\ call.op = "save_to_disk" /\ call.written.some
  /\ rows' = Document_open(call.written.text)
  /\ path' = PathSome(call.written.name)
  /\ dirty' = FALSE
  /\ call' = [NoCall EXCEPT !.op = "open", !.ok = call.ok, !.pre = call.pre,
                            !.preDirty = call.preDirty, !.prePath = call.prePath,
                            !.written = call.written]
  /\ UNCHANGED edvars

SaveNext == Insert \/ SaveToDisk \/ Open \/ Return

\* Document::default(), or Document::open(path) of a file that may hold
\* carriage returns
SaveInit ==
  /\ \/ /\ rows = <<>>
        /\ path = PathNone
     \/ /\ \E contents \in SaveContents :
             /\ rows = Document_open(contents)
             /\ Fits(rows)
        /\ path = PathSome(FileName)
  /\ dirty = FALSE
  /\ call = NoCall
  /\ InitEditor([width |-> MaxWidth, height |-> MaxHeight])
  /\ status_message = <<"HELP: Ctrl-C = exit">>

\* Documents changed, saved and opened again
SaveSpec == SaveInit /\ [][SaveNext]_vars

\* ---------------------------------------------------------- a Row alone
\* The strings a Row is made from, and the arguments its methods are called with
RowStrings == UNION {[1..n -> Chars \cup {NL}] : n \in 0..MaxChars}
RowOffsets == 0..(MaxChars + 1)

\* The Row is kept as the one row of rows.  Row::default() or Row::from(s)
RowInit ==
  /\ \/ rows = <<Row_default>>
     \/ \E str \in RowStrings : rows = <<Row_from(str)>>
  /\ path = PathNone
  /\ dirty = FALSE
  /\ call = NoCall
  /\ InitEditor([width |-> MaxWidth, height |-> MaxHeight])
  /\ status_message = <<"HELP: Ctrl-C = exit">>

\* row.insert(at, ch)
RowInsert ==
  /\ Idle
  /\ Len(rows[1].string) < MaxChars
  /\ \E at \in RowOffsets, ch \in Chars \cup {NL} :
       /\ rows' = <<Row_insert(rows[1], at, ch)>>
       /\ call' = [NoCall EXCEPT !.op = "Row::insert", !.at = [x |-> at, y |-> 0],
                                 !.ch = ch, !.pre = rows]
  /\ UNCHANGED <<dirty, path, edvars>>

\* row.insert_str(at, s)
RowInsertStr ==
  /\ Idle
  /\ \E at \in RowOffsets, str \in Texts :
       /\ Len(rows[1].string) + Len(str) <= MaxChars
       /\ rows' = <<Row_insert_str(rows[1], at, str)>>
       /\ call' = [NoCall EXCEPT !.op = "Row::insert_str", !.at = [x |-> at, y |-> 0],
                                 !.s = str, !.pre = rows]
  /\ UNCHANGED <<dirty, path, edvars>>

\* row.delete(at)
RowDelete ==
  /\ Idle
  /\ \E at \in RowOffsets :
       /\ rows' = <<Row_delete(rows[1], at)>>
       /\ call' = [NoCall EXCEPT !.op = "Row::delete", !.at = [x |-> at, y |-> 0],
                                 !.pre = rows]
  /\ UNCHANGED <<dirty, path, edvars>>

\* row.delete_slice(from, to); the record keeps the returned Option<String>
RowDeleteSlice ==
  /\ Idle
  /\ \E from \in RowOffsets, to \in RowOffsets :
       LET cut == Row_delete_slice(rows[1], from, to) IN
       /\ rows' = <<cut.row>>
       /\ call' = [NoCall EXCEPT !.op = "Row::delete_slice",
                                 !.at = [x |-> from, y |-> 0], !.last = [x |-> to, y |-> 0],
                                 !.ok = cut.some, !.s = cut.slice, !.pre = rows]
  /\ UNCHANGED <<dirty, path, edvars>>

RowNext == RowInsert \/ RowInsertStr \/ RowDelete \/ RowDeleteSlice \/ Return

\* The methods of one Row called with any arguments
RowSpec == RowInit /\ [][RowNext]_vars

\* ------------------------------------------------------- scroll() alone
\* The terminals and the cursor positions scroll() is called with
ScrollSizes == [width : 1..MaxWidth, height : 2..(MaxHeight + 1)]
ScrollPositions == [x : 0..(MaxWidth + 1), y : 0..ScrollMax]

\* Editor::default() without a file, in a terminal of any size
ScrollInit ==
  /\ rows = <<>>
  /\ path = PathNone
  /\ dirty = FALSE
  /\ call = NoCall
  /\ \E sz \in ScrollSizes : InitEditor(sz)
  /\ status_message = <<"HELP: Ctrl-C = exit">>

\* self.cursor_position = at; self.scroll(): the record keeps the cursor
\* position and the cursor offset from before
ScrollTo ==
  /\ \E at \in ScrollPositions :
       /\ cursor_position' = at
       /\ cursor_offset' = scroll(at, cursor_offset, size)
  /\ call' = [NoCall EXCEPT !.op = "scroll", !.at = cursor_position,
                            !.last = cursor_offset]
  /\ UNCHANGED <<docvars, size, should_quit, quit_times, status_message, mode,
                 prompt_result, old_position>>

ScrollNext == ScrollTo

\* The cursor put anywhere and scroll() called, again and again
ScrollSpec == ScrollInit /\ [][ScrollNext]_vars

EditNext == Insert \/ Delete \/ Return

\* A document changed by insert and delete alone
EditSpec == Init /\ [][EditNext]_vars

\* The queries find is called with
Queries == {<<"a">>, <<"m", "a">>}
SearchDir == {"Forward", "Backward"}

\* document.find(query, &at, direction)
Find ==
  /\ Idle
  /\ \E at \in Positions, query \in Queries, direction \in SearchDir :
       call' = [NoCall EXCEPT !.op = "find", !.at = at, !.s = query, !.dir = direction,
                              !.pre = rows, !.preDirty = dirty,
                              !.found = Document_find(rows, query, at, direction)]
  /\ UNCHANGED <<rows, dirty, path, edvars>>

FindNext == Find \/ Return

\* Searches in a document just opened or created
FindSpec == Init /\ [][FindNext]_vars

ApiNext == Insert \/ InsertStr \/ Delete \/ Find \/ Return

\* A document under the calls that take a position
ApiSpec == Init /\ [][ApiNext]_vars

\* self.process_move(key) from any cursor position
Move ==
  /\ Idle
  /\ \E at \in Positions, key \in MoveKeys :
       /\ cursor_position' = process_move(at, key, rows, size)
       /\ call' = [NoCall EXCEPT !.op = "process_move", !.at = at, !.s = <<key>>,
                                 !.pre = rows, !.preDirty = dirty]
  /\ UNCHANGED <<docvars, cursor_offset, size, should_quit, quit_times, status_message,
                 mode, prompt_result, old_position>>

MoveNext == Move \/ Return

\* A document just opened or created, in a terminal of any height
MoveInit ==
  /\ InitDocument
  /\ \E h \in 2..MaxHeight : InitEditor([width |-> MaxWidth, height |-> h])
  /\ status_message = <<"HELP: Ctrl-C = exit">>

\* Single moves from any cursor position
MoveSpec == MoveInit /\ [][MoveNext]_vars

\* ------------------------------------------------------- the editor loop
\* The end of Editor::process_keyboard after the match on the key: quit_times
\* is set to QUIT_TIMES again, the status message cleared if it was lower, and
\* scroll() called.  cur, offset and st are the cursor position, the cursor
\* offset and the status message the code before it has set.
FinishKeyboard(cur, offset, st) ==
  /\ cursor_position' = cur
  /\ cursor_offset' = scroll(cur, offset, size)
  /\ quit_times' = QUIT_TIMES
  /\ status_message' = IF quit_times < QUIT_TIMES THEN <<>> ELSE st

\* Editor::run waits in terminal.read_event()
InMain == mode = "main" /\ ~should_quit

PromptLocals == <<prompt_result, old_position>>

\* Enter or Ctrl-J
KeyEnter ==
  /\ InMain
  /\ LET after == Document_insert(rows, dirty, cursor_position, NL) IN
     /\ EdFits(after.rows)
     /\ rows' = after.rows
     /\ dirty' = after.dirty
     /\ FinishKeyboard(process_move(cursor_position, "Right", after.rows, size),
                       cursor_offset, status_message)
  /\ call' = NoCall
  /\ UNCHANGED <<path, size, should_quit, mode, PromptLocals>>

\* Ctrl-C with `quit_times > 1` for `quit_times > 0`: the third press quits
KeyCtrlC_third_quits ==
  /\ InMain
  /\ IF quit_times > 1 /\ dirty
     THEN /\ status_message' = <<"WARNING! File has unsaved changes.", quit_times>>
          /\ quit_times' = quit_times - 1
          /\ UNCHANGED <<cursor_position, cursor_offset, should_quit, mode>>
     ELSE /\ should_quit' = TRUE
          /\ mode' = "exited"
          /\ FinishKeyboard(cursor_position, cursor_offset, status_message)
  /\ call' = [Began("ctrl_c") EXCEPT !.presses = call.presses + 1]
  /\ UNCHANGED <<docvars, size, PromptLocals>>

\* Ctrl-C; the record counts the Ctrl-C keys pressed one after the other,
\* this one included (the record of any other key has none)
KeyCtrlC ==
  /\ InMain
  /\ IF quit_times > 0 /\ dirty
     THEN /\ status_message' = <<"WARNING! File has unsaved changes.", quit_times>>
          /\ quit_times' = quit_times - 1
          /\ UNCHANGED <<cursor_position, cursor_offset, should_quit, mode>>
     ELSE /\ should_quit' = TRUE
          /\ mode' = "exited"
          /\ FinishKeyboard(cursor_position, cursor_offset, status_message)
  /\ call' = [Began("ctrl_c") EXCEPT !.presses = call.presses + 1]
  /\ UNCHANGED <<docvars, size, PromptLocals>>

\* Ctrl-S: Editor::save, up to its return or to the first wait of its prompt
KeyCtrlS ==
  /\ InMain
  /\ IF ~path.some
     THEN /\ mode' = "save_as"
          /\ prompt_result' = <<>>
          /\ status_message' = <<"Save as: ", <<>>>>
          /\ call' = Began("save_as")
          /\ UNCHANGED <<dirty, cursor_position, cursor_offset, quit_times>>
     ELSE /\ \E fail \in Failures(rows) :
               LET ok    == fail = NoFailure
                   after == Document_save_to_disk(dirty, path, ok)
               IN
               /\ dirty' = after.dirty
               /\ FinishKeyboard(cursor_position, cursor_offset,
                                 IF after.result = "Ok" THEN <<"File saved">>
                                 ELSE <<"Failed to save file!">>)
               /\ call' = [Began("save") EXCEPT
                             !.ok = ok, !.result = after.result,
                             !.written = save_to_disk_file(rows, path, fail)]
          /\ UNCHANGED <<mode, prompt_result>>
  /\ UNCHANGED <<rows, path, size, should_quit, old_position>>

\* Ctrl-F: Editor::search up to the first wait of its prompt
KeyCtrlF ==
  /\ InMain
  /\ mode' = "search"
  /\ old_position' = cursor_position
  /\ prompt_result' = <<>>
  /\ status_message' = <<"Search: ", <<>>>>
  /\ call' = Began("search")
  /\ UNCHANGED <<docvars, cursor_position, cursor_offset, size, should_quit,
                 quit_times>>

\* Ctrl-End
KeyCtrlEnd ==
  /\ InMain
  /\ LET last_index == saturating_sub(rows_size(rows), 1)
         cur == IF row_is_some(rows, last_index)
                THEN [x |-> Row_size(rows[last_index + 1]), y |-> last_index]
                ELSE cursor_position
     IN FinishKeyboard(cur, cursor_offset, status_message)
  /\ call' = NoCall
  /\ UNCHANGED <<docvars, size, should_quit, mode, PromptLocals>>

\* Ctrl-Home
KeyCtrlHome ==
  /\ InMain
  /\ FinishKeyboard(Origin, cursor_offset, status_message)
  /\ call' = NoCall
  /\ UNCHANGED <<docvars, size, should_quit, mode, PromptLocals>>

\* A character key
KeyChar ==
  /\ InMain
  /\ \E c \in Chars :
       LET after == Document_insert(rows, dirty, cursor_position, c) IN
       /\ EdFits(after.rows)
       /\ rows' = after.rows
       /\ dirty' = after.dirty
       /\ FinishKeyboard(process_move(cursor_position, "Right", after.rows, size),
                         cursor_offset, status_message)
  /\ call' = NoCall
  /\ UNCHANGED <<path, size, should_quit, mode, PromptLocals>>

\* Backspace
KeyBackspace ==
  /\ InMain
  /\ IF ~(cursor_position.x = 0 /\ cursor_position.y = 0)
     THEN LET cur   == process_move(cursor_position, "Left", rows, size)
              after == Document_delete(rows, dirty, cur)
          IN /\ rows' = after.rows
             /\ dirty' = after.dirty
             /\ FinishKeyboard(cur, cursor_offset, status_message)
     ELSE /\ UNCHANGED <<rows, dirty>>
          /\ FinishKeyboard(cursor_position, cursor_offset, status_message)
  /\ call' = NoCall
  /\ UNCHANGED <<path, size, should_quit, mode, PromptLocals>>

\* Delete
KeyDelete ==
  /\ InMain
  /\ LET after == Document_delete(rows, dirty, cursor_position) IN
     /\ rows' = after.rows
     /\ dirty' = after.dirty
  /\ FinishKeyboard(cursor_position, cursor_offset, status_message)
  /\ call' = NoCall
  /\ UNCHANGED <<path, size, should_quit, mode, PromptLocals>>

\* Up, Down, Left, Right, Home, End, PageDown or PageUp
KeyMove ==
  /\ InMain
  /\ \E key \in MoveKeys :
       FinishKeyboard(process_move(cursor_position, key, rows, size),
                      cursor_offset, status_message)
  /\ call' = NoCall
  /\ UNCHANGED <<docvars, size, should_quit, mode, PromptLocals>>

\* A key that process_keyboard matches with `_ => {}` (Esc, Tab, F1, ...)
KeyOther ==
  /\ InMain
  /\ FinishKeyboard(cursor_position, cursor_offset, status_message)
  /\ call' = NoCall
  /\ UNCHANGED <<docvars, size, should_quit, mode, PromptLocals>>

\* Event::Resize(new_cols, new_rows): terminal.resize and refresh_screen.
\* It is no key event: the record of Ctrl-C keys is kept
Resize ==
  /\ InMain
  /\ \E sz \in Sizes : sz # size /\ size' = sz
  /\ call' = IF call.op = "ctrl_c" THEN call ELSE NoCall
  /\ UNCHANGED <<docvars, cursor_position, cursor_offset, should_quit, quit_times,
                 status_message, mode, PromptLocals>>

\* The keys typed in a prompt: a character, Backspace, Esc, Enter (or Ctrl-J),
\* an arrow key, or a key that the prompt leaves alone
PromptChars == {"a"}
PromptKeys == {"Char", "Backspace", "Esc", "Enter", "Right", "Down", "Up", "Left", "Delete"}

\* Editor::prompt with Esc ending the prompt and `result` not truncated
typed_kept_on_esc(res, key, c) ==
  CASE key = "Char" -> Append(res, c)
    [] key = "Backspace" -> IF res = <<>> THEN res ELSE SubSeq(res, 1, Len(res) - 1)
    [] OTHER -> res

\* Editor::prompt, the match on the key: `result` afterwards
typed(res, key, c) ==
  CASE key = "Char" -> Append(res, c)
    [] key = "Backspace" -> IF res = <<>> THEN res ELSE SubSeq(res, 1, Len(res) - 1)
    [] key = "Esc" -> <<>>
    [] OTHER -> res

\* The callback of Editor::search on a key, `query` the text typed so far:
\* the cursor position and the cursor offset afterwards.  search_dir, the
\* local of Editor::search that the callback captures, is assigned on every
\* path of the callback before it is read: it carries nothing from one key to
\* the next and is the `dir` of one call here.  `found` is what
\* Document::find returned.
search_callback(key, query) ==
  LET moved == key \in {"Right", "Down"}
      dir   == IF key \in {"Up", "Left"} THEN "Backward" ELSE "Forward"
      cur   == IF moved THEN process_move(cursor_position, "Right", rows, size)
               ELSE cursor_position
      found == Document_find(rows, query, cur, dir)
  IN IF found.some
     THEN [cursor |-> [x |-> found.x, y |-> found.y],
           offset |-> scroll([x |-> found.x, y |-> found.y], cursor_offset, size),
           found |-> found]
     ELSE [cursor |-> IF moved THEN process_move(cur, "Left", rows, size) ELSE cur,
           offset |-> cursor_offset,
           found |-> found]

\* A key in the prompt of Editor::search: the prompt waits again, or it ends
\* and search and process_keyboard run to their ends
SearchKey ==
  /\ mode = "search"
  /\ \E key \in PromptKeys, c \in PromptChars :
       LET res == typed(prompt_result, key, c)
           cb  == search_callback(key, res)
       IN /\ key = "Char" => Len(prompt_result) < MaxTyped
          /\ key # "Char" => c = CHOOSE d \in PromptChars : TRUE
          /\ IF key \notin {"Esc", "Enter"}
             THEN /\ prompt_result' = res
                  /\ cursor_position' = cb.cursor
                  /\ cursor_offset' = cb.offset
                  /\ status_message' = <<"Search: ", res>>
                  /\ UNCHANGED <<mode, quit_times, old_position, call>>
             ELSE /\ mode' = "main"
                  /\ prompt_result' = <<>>
                  /\ old_position' = Origin
                  /\ call' = [call EXCEPT !.op = "search_end", !.ch = key,
                                          !.s = prompt_result, !.last = cursor_position,
                                          !.prompt = IF res = <<>> THEN "None" ELSE "Some"]
                  /\ IF res = <<>>
                     THEN FinishKeyboard(old_position,
                                         scroll(old_position, cb.offset, size),
                                         <<"Find aborted">>)
                     ELSE FinishKeyboard(cb.cursor, cb.offset, <<>>)
  /\ UNCHANGED <<docvars, size, should_quit>>

\* A key in the "Save as: " prompt of Editor::save: the prompt waits again, or
\* it ends and save and process_keyboard run to their ends
SaveAsKey ==
  /\ mode = "save_as"
  /\ \E key \in {"Char", "Backspace", "Esc", "Enter"}, c \in PromptChars,
        fail \in Failures(rows) :
       LET res == typed(prompt_result, key, c)
           ok  == fail = NoFailure
       IN
       /\ key = "Char" => Len(prompt_result) < MaxTyped
       /\ key # "Char" => c = CHOOSE d \in PromptChars : TRUE
       /\ IF key \notin {"Esc", "Enter"}
          THEN /\ ok
               /\ prompt_result' = res
               /\ status_message' = <<"Save as: ", res>>
               /\ UNCHANGED <<mode, quit_times, cursor_position, cursor_offset,
                              path, dirty, call>>
          ELSE /\ mode' = "main"
               /\ prompt_result' = <<>>
               /\ IF res = <<>>
                  THEN /\ ok
                       /\ UNCHANGED <<path, dirty>>
                       /\ FinishKeyboard(cursor_position, cursor_offset, <<"Save aborted">>)
                       /\ call' = [call EXCEPT !.op = "save_as_end", !.ch = key,
                                               !.s = prompt_result, !.prompt = "None"]
                  ELSE LET after == Document_save_to_disk(dirty, PathSome(res), ok) IN
                       /\ path' = PathSome(res)
                       /\ dirty' = after.dirty
                       /\ FinishKeyboard(cursor_position, cursor_offset,
                                         IF after.result = "Ok" THEN <<"File saved">>
                                         ELSE <<"Failed to save file!">>)
                       /\ call' = [call EXCEPT
                                     !.op = "save", !.ch = key, !.s = prompt_result,
                                     !.prompt = "Some", !.ok = ok, !.result = after.result,
                                     !.written = save_to_disk_file(rows, PathSome(res), fail)]
  /\ UNCHANGED <<rows, size, should_quit, old_position>>

EditorNext ==
  \/ KeyEnter \/ KeyCtrlC \/ KeyCtrlS \/ KeyCtrlF \/ KeyCtrlEnd \/ KeyCtrlHome
  \/ KeyChar \/ KeyBackspace \/ KeyDelete \/ KeyMove \/ KeyOther \/ Resize
  \/ SearchKey \/ SaveAsKey

\* Editor::default(): the editor started on a file or without one
EditorInit ==
  /\ InitDocument
  /\ EdFits(rows)
  /\ \E sz \in Sizes : InitEditor(sz)

\* The editor driven by key and resize events
EditorSpec == EditorInit /\ [][EditorNext]_vars

\* The callback of Editor::search called on a key, with a query typed so far
Callback ==
  /\ Idle
  /\ \E key \in PromptKeys, query \in Queries :
       LET cb == search_callback(key, query) IN
       /\ cursor_position' = cb.cursor
       /\ cursor_offset' = cb.offset
       /\ call' = [Began("callback") EXCEPT !.ch = key, !.s = query, !.found = cb.found]
  /\ UNCHANGED <<docvars, size, should_quit, quit_times, status_message, mode,
                 PromptLocals>>

CallbackNext == Move \/ Callback \/ Return

\* The callback of the search prompt called wherever process_move has put
\* the cursor
CallbackSpec == MoveInit /\ [][CallbackNext]_vars

KeysNext ==
  \/ KeyEnter \/ KeyChar \/ KeyBackspace \/ KeyDelete \/ KeyMove
  \/ KeyCtrlHome \/ KeyCtrlEnd \/ KeyCtrlF \/ SearchKey \/ KeyCtrlS \/ SaveAsKey

\* The editor driven by the keys that edit, move, search and save, in a
\* terminal that keeps its size
KeysSpec == EditorInit /\ [][KeysNext]_vars

QuitNext ==
  \/ KeyEnter \/ KeyCtrlC \/ KeyCtrlS \/ KeyCtrlF \/ KeyCtrlEnd \/ KeyCtrlHome
  \/ KeyChar \/ KeyBackspace \/ KeyDelete \/ KeyMove \/ KeyOther
  \/ SearchKey \/ SaveAsKey

\* Editor::default() in a terminal of one size
QuitInit ==
  /\ InitDocument
  /\ EdFits(rows)
  /\ InitEditor([width |-> MaxWidth, height |-> MaxHeight])

\* The editor driven by every key event, Ctrl-C among them, in a terminal that
\* keeps its size
QuitSpec == QuitInit /\ [][QuitNext]_vars

\* ================================================================ claims
\* The text of every row, in order
Strings(rs) == [i \in 1..Len(rs) |-> rs[i].string]

\* The clusters of row y of the document rs (y counted from 0)
Clusters(rs, y) == graphemes(rs[y + 1].string)

\* The rows of rs other than row y are the rows of before other than row y,
\* in the same order; rs has `shift` rows more than before, put right after y
OthersKept(rs, before, y, shift) ==
  /\ Len(rs) = Len(before) + shift
  /\ \A i \in 1..Len(before) :
       /\ i < y + 1 => rs[i].string = before[i].string
       /\ i > y + 1 /\ i + shift > y + 1 => rs[i + shift].string = before[i].string

\* The last call changed the line sequence or the content of a line
Mutated == call.op \in {"insert", "insert_str", "delete"} /\ Strings(rows) # Strings(call.pre)

\* C1 (as claimed): after an insert, an insert_str or a delete that changed
\* the line sequence or the content of a line, is_dirty() is true.
C1_DirtyAfterMutation == Mutated => dirty

\* C2 (as claimed): insert_str at an existing line y puts the text before
\* cluster x of that line (appends it when x >= length), recomputes the length
\* and leaves every other line as it was.
C2_InsertStrAt ==
  (call.op = "insert_str" /\ call.at.y < Len(call.pre)) =>
    LET g == Clusters(call.pre, call.at.y)
        x == call.at.x
        expected == IF x >= Len(g) THEN call.pre[call.at.y + 1].string \o call.s
                    ELSE (Collect(Take(g, x)) \o call.s) \o Collect(Skip(g, x))
    IN /\ rows[call.at.y + 1].string = expected
       /\ rows[call.at.y + 1].len = Len(graphemes(expected))
       /\ OthersKept(rows, call.pre, call.at.y, 0)

\* C3: insert of a newline at an existing line y splits it: the line count
\* grows by one, line y keeps the clusters before x, the new line y+1 holds
\* the clusters from x on, the other lines keep content and order, dirty is
\* true; for x >= length the new line is empty and line y is unchanged.
C3_Split ==
  (call.op = "insert" /\ call.ch = NL /\ call.at.y < Len(call.pre)) =>
    LET g == Clusters(call.pre, call.at.y)
        x == call.at.x
        y == call.at.y
    IN /\ Len(rows) = Len(call.pre) + 1
       /\ rows[y + 1].string = Collect(Take(g, x))
       /\ rows[y + 2].string = Collect(Skip(g, x))
       /\ OthersKept(rows, call.pre, y, 1)
       /\ dirty
       /\ x >= Len(g) => (rows[y + 2].string = <<>> /\ rows[y + 1] = call.pre[y + 1])

\* C3 witness: a line of a two-line document was split inside its text
C3_Witness ==
  /\ call.op = "insert" /\ call.ch = NL
  /\ Len(call.pre) = 2 /\ call.at.y = 0
  /\ call.at.x > 0 /\ call.at.x < Len(Clusters(call.pre, 0))
  /\ Len(rows) = 3

\* The delete of the last call was made at the end of a line that is not the last
IsMerge ==
  /\ call.op = "delete"
  /\ call.at.y < Len(call.pre) - 1
  /\ call.at.x = Len(Clusters(call.pre, call.at.y))

\* C4: delete at the end of a line y that is not the last appends line y+1 to
\* line y and removes line y+1, the other lines unchanged; any other delete at
\* an existing line leaves the line count and removes at most cluster x of line y.
C4_Delete ==
  (call.op = "delete" /\ call.at.y < Len(call.pre)) =>
    LET g == Clusters(call.pre, call.at.y)
        x == call.at.x
        y == call.at.y
    IN IF IsMerge
       THEN /\ Len(rows) = Len(call.pre) - 1
            /\ rows[y + 1].string = call.pre[y + 1].string \o call.pre[y + 2].string
            /\ \A i \in 1..Len(rows) :
                 /\ i < y + 1 => rows[i].string = call.pre[i].string
                 /\ i > y + 1 => rows[i].string = call.pre[i + 1].string
       ELSE /\ OthersKept(rows, call.pre, y, 0)
            /\ \/ rows[y + 1].string = call.pre[y + 1].string
               \/ /\ x < Len(g)
                  /\ rows[y + 1].string = Collect(Take(g, x)) \o Collect(Skip(g, x + 1))

\* C4 witness: the first two lines of a three-line document were merged
C4_Witness ==
  /\ IsMerge
  /\ Len(call.pre) = 3 /\ call.at.y = 0
  /\ call.pre[1].string # <<>> /\ call.pre[2].string # <<>>
  /\ Len(rows) = 2

\* The last call was a delete that followed an insert of ch at the same
\* position (x, y), y an existing line and x at most its length
DeleteAfterInsert(chs) ==
  /\ call.op = "delete" /\ call.undo.op = "insert" /\ call.undo.ch \in chs
  /\ call.at.y < Len(call.undo.pre)
  /\ call.at.x <= Len(Clusters(call.undo.pre, call.at.y))

\* C5: a newline inserted at (k, y), y an existing line and k <= its length,
\* and a delete at (k, y) right after it restore the line sequence.
C5_SplitThenMerge ==
  DeleteAfterInsert({NL}) => Strings(rows) = Strings(call.undo.pre)

\* C5 witness: a line was split inside its text and merged again
C5_Witness ==
  /\ DeleteAfterInsert({NL})
  /\ call.at.x > 0 /\ call.at.x < Len(Clusters(call.undo.pre, call.at.y))
  /\ Len(call.pre) = Len(call.undo.pre) + 1

\* C6 (as claimed): a character other than the newline inserted at (k, y), y
\* an existing line and k <= its length, and a delete at (k, y) right after it
\* restore the content and the cached length of every line.
C6_InsertThenDelete ==
  DeleteAfterInsert(Chars) => rows = call.undo.pre

\* The character of the undone insert became a cluster of its own: after the
\* insert the clusters of the line were the clusters before x, the character,
\* and the clusters from x on
OwnCluster ==
  LET g == Clusters(call.undo.pre, call.at.y)
  IN Clusters(call.pre, call.at.y) =
       (Take(g, call.at.x) \o <<<<call.undo.ch>>>>) \o Skip(g, call.at.x)

\* C6 (amended): the same, for a character that forms a grapheme cluster of
\* its own where it is inserted (it joins neither the cluster before it nor
\* the cluster after it).
C6_InsertOwnClusterThenDelete ==
  (DeleteAfterInsert(Chars) /\ OwnCluster) => rows = call.undo.pre

\* C6 witness: a character was inserted at the end of a line that is not the
\* last and deleted again
C6_Witness ==
  /\ DeleteAfterInsert(Chars) /\ OwnCluster
  /\ call.at.y < Len(call.undo.pre) - 1
  /\ call.at.x = Len(Clusters(call.undo.pre, call.at.y))
  /\ call.at.x > 0

\* What Row::find gives on line i for the search of the last call: the line
\* the search began on is searched from x, another line from its start
\* (Forward) or from its length (Backward)
HitOn(i, direction) ==
  Row_find(rows[i + 1], call.s,
           IF i = call.at.y THEN call.at.x
           ELSE IF direction = "Forward" THEN 0 ELSE Row_size(rows[i + 1]),
           direction)

\* C9: find Forward from (x, y), y an existing line, returns the match of the
\* first line among y, y+1, ..., lineCount-1 that has one (line y searched
\* from x, the later lines from 0), and nothing when none of them has one.
C9_FindForward ==
  (call.op = "find" /\ call.dir = "Forward" /\ call.at.y < Len(rows)) =>
    LET visited == call.at.y..(Len(rows) - 1)
        matching == {i \in visited : HitOn(i, "Forward").some}
    IN IF matching = {} THEN call.found = None
       ELSE LET i == CHOOSE j \in matching : \A k \in matching : j <= k
            IN call.found = Some(HitOn(i, "Forward").x, i)

\* C9 witness: the match was found on a line after the first one visited
\* although a line before the start has the query too
C9_Witness ==
  /\ call.op = "find" /\ call.dir = "Forward"
  /\ call.at.y = 1 /\ Len(rows) = 3
  /\ call.found.some /\ call.found.y = 2
  /\ Row_find(rows[1], call.s, 0, "Forward").some

\* C10 (as claimed): find Backward from (x, y), y <= lineCount, returns the
\* match of the last existing line among 0..y that has one (line y searched
\* backward from x, the earlier lines from their length), and nothing only
\* when none of them has one.
C10_FindBackward ==
  (call.op = "find" /\ call.dir = "Backward" /\ call.at.y <= Len(rows)) =>
    LET visited == {i \in 0..call.at.y : i < Len(rows)}
        matching == {i \in visited : HitOn(i, "Backward").some}
    IN IF matching = {} THEN call.found = None
       ELSE LET i == CHOOSE j \in matching : \A k \in matching : j >= k
            IN call.found = Some(HitOn(i, "Backward").x, i)

\* C10 for a start on an existing line: there the code does as claimed
C10_FindBackwardOnLine ==
  (call.op = "find" /\ call.at.y < Len(rows)) => C10_FindBackward

\* C8: after a single move from any cursor position, y is at most the index
\* of the last line and x at most the length of the line at y; the cursor is
\* (0, 0) in an empty document; no coordinate falls below 0.
C8_MoveInRange ==
  call.op = "process_move" =>
    /\ cursor_position.x >= 0 /\ cursor_position.y >= 0
    /\ IF rows = <<>> THEN cursor_position = Origin
       ELSE /\ cursor_position.y <= Len(rows) - 1
            /\ cursor_position.x <= Len(Clusters(rows, cursor_position.y))

\* C8 witness: a move down from a cursor on the last line, right of the end
\* of that line
C8_Witness ==
  /\ call.op = "process_move" /\ call.s \in {<<"Down">>, <<"PageDown">>}
  /\ Len(rows) >= 2 /\ call.at.y = Len(rows) - 1
  /\ call.at.x > Len(Clusters(rows, call.at.y))
  /\ cursor_position.y = Len(rows) - 1

\* The editor waits for an event
Waiting == mode \in {"main", "search", "save_as"}

\* The cursor lies inside the visible window
CursorVisible ==
  /\ cursor_offset.x <= cursor_position.x
  /\ cursor_position.x < cursor_offset.x + size.width
  /\ cursor_offset.y <= cursor_position.y
  /\ cursor_position.y < cursor_offset.y + saturating_sub(size.height, 2)

\* C7 (as claimed): wherever the editor waits for an event, in a terminal at
\* least one column wide and with at least one visible row, the cursor lies
\* inside the visible window.
C7_CursorVisible ==
  (Waiting /\ size.width >= 1 /\ saturating_sub(size.height, 2) >= 1) => CursorVisible

\* ------------------------------------------------------------------ C13
\* The last call was given a position the operation declines: a line beyond
\* one past the end for insert and insert_str, no existing line for the
\* insert of a newline and for delete, or an existing line and an x beyond its
\* length for delete
InvalidPosition ==
  \/ call.op \in {"insert", "insert_str"} /\ call.at.y > Len(call.pre)
  \/ call.op = "insert" /\ call.ch = NL /\ call.at.y >= Len(call.pre)
  \/ call.op = "delete" /\ call.at.y >= Len(call.pre)
  \/ /\ call.op = "delete" /\ call.at.y < Len(call.pre)
     /\ call.at.x > Len(Clusters(call.pre, call.at.y))

\* C13: a call of insert, insert_str or delete with an invalid position
\* returns and leaves the number of lines and every line as they were.
C13_InvalidPositionNoOp == InvalidPosition => rows = call.pre

\* C13 witness: a delete beyond the end of a line that has text and is not the
\* last line
C13_Witness ==
  /\ call.op = "delete" /\ call.at.y < Len(call.pre) - 1
  /\ call.pre[call.at.y + 1].string # <<>>
  /\ call.at.x > Len(Clusters(call.pre, call.at.y))
  /\ rows = call.pre

\* ------------------------------------------------------------------ C18
\* C18: insert of a character other than the newline at a line one past the
\* end adds one line, the new last line holds that character alone whatever
\* x is, the lines before it are as they were, and dirty is true.
C18_InsertPastEnd ==
  (call.op = "insert" /\ call.ch # NL /\ call.at.y = Len(call.pre)) =>
    /\ Len(rows) = Len(call.pre) + 1
    /\ rows[Len(rows)].string = <<call.ch>>
    /\ rows[Len(rows)].len = 1
    /\ SubSeq(rows, 1, Len(call.pre)) = call.pre
    /\ dirty

\* C18 witness: a character inserted one past the end of a clean document
\* that has lines, at an x other than 0
C18_Witness ==
  /\ call.op = "insert" /\ call.ch # NL /\ call.at.y = Len(call.pre)
  /\ call.pre # <<>> /\ call.at.x > 0 /\ ~call.preDirty
  /\ Len(rows) = Len(call.pre) + 1

\* ------------------------------------------------------------------ C19
\* C19 (as claimed): a call of insert, insert_str or delete that leaves the
\* number of lines and the content of every line as they were leaves the
\* dirty flag as it was.
C19_DirtyOnlyOnMutation ==
  (call.op \in {"insert", "insert_str", "delete"} /\ Strings(rows) = Strings(call.pre))
    => dirty = call.preDirty

\* C19 for insert_str and delete, which never assign dirty, and for the
\* insert of a character other than the newline, which always adds it
C19_DirtyOnlyOnMutationButNewline ==
  (call.op = "insert" => call.ch # NL) => C19_DirtyOnlyOnMutation

\* ------------------------------------------------------------------ C14
\* The text of the lines ls, each followed by one newline
Terminated(ls) == Collect([i \in 1..Len(ls) |-> ls[i] \o <<NL>>])

\* No line of rs holds a newline
NoNewline(rs) ==
  \A i \in 1..Len(rs) : \A j \in 1..Len(rs[i].string) : rs[i].string[j] # NL

\* No line of rs holds a line terminator, newline or carriage return
NoTerminator(rs) ==
  \A i \in 1..Len(rs) : \A j \in 1..Len(rs[i].string) : rs[i].string[j] \notin {NL, CR}

\* The last call was a save_to_disk of a document with a path that succeeded
Saved == call.op = "save_to_disk" /\ call.prePath.some /\ call.result = "Ok"

\* C14: a save_to_disk of a document with a path that succeeds has written
\* every line followed by one newline (nothing for no lines) and leaves dirty
\* false; the file opened again gives the same lines and dirty false, when no
\* line holds a line terminator (newline or carriage return).
C14_SaveThenOpen ==
  /\ Saved => /\ call.written = FileOf(path.name, Terminated(Strings(call.pre)))
              /\ ~dirty
  /\ (call.op = "open" /\ call.ok /\ NoTerminator(call.pre)) =>
       /\ Strings(rows) = Strings(call.pre)
       /\ ~dirty

\* C14 witness: a dirty document of two lines with text was saved and opened
\* again
C14_Witness ==
  /\ call.op = "open" /\ call.ok /\ call.preDirty /\ NoTerminator(call.pre)
  /\ Len(call.pre) = 2 /\ call.pre[1].string # <<>> /\ call.pre[2].string # <<>>
  /\ Len(rows) = 2

\* C14 with the carriage return let into the lines: a line that ends in a
\* carriage return comes back without it
C14_SaveThenOpenNoNewline ==
  (call.op = "open" /\ call.ok /\ NoNewline(call.pre)) => Strings(rows) = Strings(call.pre)

\* ------------------------------------------------------------------ C15
\* C15: the cached length of every line is the number of grapheme clusters
\* of its content, after construction and after every call of insert,
\* insert_str, delete and delete_slice.
C15_LenIsClusterCount ==
  \A i \in 1..Len(rows) : rows[i].len = Len(graphemes(rows[i].string))

\* C15 witness: a delete_slice took clusters out of a line and left a line
\* that has fewer clusters than characters
C15_Witness ==
  /\ call.op = "Row::delete_slice" /\ call.ok
  /\ rows[1].string # <<>>
  /\ rows[1].len < Len(rows[1].string)

\* ------------------------------------------------------------------ C16
\* The offset the claim gives for one axis
OffsetFor(cursor, offset, extent) ==
  IF cursor >= offset + extent THEN cursor - extent + 1
  ELSE IF cursor < offset THEN cursor
  ELSE offset

\* The cursor offset after the cursor went down from row 0 to row y one row
\* at a time, scroll() called after each move, three rows visible
RECURSIVE ScrolledDownTo(_)
ScrolledDownTo(y) ==
  IF y = 0 THEN scroll(Origin, Origin, [width |-> 1, height |-> 5])
  ELSE scroll([x |-> 0, y |-> y], ScrolledDownTo(y - 1), [width |-> 1, height |-> 5])

\* C16: scroll() sets the offset of each axis from the cursor, the offset
\* before and the visible extent of that axis alone (the width for x, the
\* height less two for y): cursor - extent + 1 when cursor >= offset + extent,
\* the cursor when cursor < offset, the offset before otherwise; with three
\* visible rows and the cursor going down from row 0 to row 5, offset.y is
\* 0, 0, 0, 1, 2, 3.
C16_ScrollFormula ==
  /\ call.op = "scroll" =>
       /\ cursor_offset.x = OffsetFor(cursor_position.x, call.last.x, size.width)
       /\ cursor_offset.y = OffsetFor(cursor_position.y, call.last.y,
                                      saturating_sub(size.height, 2))
  /\ [y \in 0..5 |-> ScrolledDownTo(y).y] = [y \in 0..5 |-> IF y < 3 THEN 0 ELSE y - 2]

\* C16 witness: with three visible rows the cursor went down one row to row
\* 5, the offset was 2 and became 3; on the other axis the cursor went back
\* behind the offset
C16_Witness ==
  /\ call.op = "scroll" /\ size.height = 5
  /\ call.at.y = 4 /\ cursor_position.y = 5
  /\ call.last.y = 2 /\ cursor_offset.y = 3
  /\ cursor_position.x < call.last.x /\ cursor_offset.x = cursor_position.x

\* ------------------------------------------------------------------ C17
\* at addresses an existing line of rs and an offset of it, its end included
ValidCursor(at, rs) == at.y < Len(rs) /\ at.x <= Len(Clusters(rs, at.y))

\* C17: from a cursor on an existing line, Left at x = 0 goes to the end of
\* the line before (stays at (0, 0)), Right at the end of a line goes to the
\* start of the next line (stays at the end of the last line), and everywhere
\* else Left and Right change x by one and leave y.
C17_LeftRightWrap ==
  (call.op = "process_move" /\ call.s \in {<<"Left">>, <<"Right">>}
     /\ ValidCursor(call.at, rows)) =>
    LET x == call.at.x
        y == call.at.y
    IN IF call.s = <<"Left">>
       THEN IF x > 0 THEN cursor_position = [x |-> x - 1, y |-> y]
            ELSE IF y > 0
                 THEN cursor_position = [x |-> Len(Clusters(rows, y - 1)), y |-> y - 1]
                 ELSE cursor_position = call.at
       ELSE IF x < Len(Clusters(rows, y)) THEN cursor_position = [x |-> x + 1, y |-> y]
            ELSE IF y < Len(rows) - 1 THEN cursor_position = [x |-> 0, y |-> y + 1]
                 ELSE cursor_position = call.at

\* C17 witness: Left at the start of a line went to the end of the line
\* before, a line with text
C17_Witness ==
  /\ call.op = "process_move" /\ call.s = <<"Left">>
  /\ call.at.x = 0 /\ call.at.y > 0 /\ call.at.y < Len(rows)
  /\ cursor_position.y = call.at.y - 1 /\ cursor_position.x > 0

\* ------------------------------------------------------------------ C11
\* The last event was an Esc that ended a prompt
EndedByEsc == call.op \in {"search_end", "save_as_end", "save"} /\ call.ch = "Esc"

\* C11: when Esc ends the search prompt or the save-as prompt, the lines, the
\* path, the dirty flag and the cursor position are what they were when the
\* prompt began, the prompt gives no result and no file is written.
C11_EscapeRestores ==
  EndedByEsc =>
    /\ rows = call.pre
    /\ path = call.prePath
    /\ dirty = call.preDirty
    /\ cursor_position = call.at
    /\ call.prompt = "None"
    /\ call.written = NoFile

\* C11 witness: Esc ended a search in a changed document, after text was
\* typed and the search had moved the cursor
C11_Witness ==
  /\ EndedByEsc /\ call.op = "search_end"
  /\ call.s # <<>> /\ call.last # call.at /\ call.preDirty
  /\ cursor_position = call.at

\* ------------------------------------------------------------------ C12
\* C12 (as claimed): after a save that failed the lines and the dirty flag
\* are what they were before it, the editor runs on (should_quit is false)
\* and the status message tells of the failure.
C12_FailedSave ==
  (call.op = "save" /\ call.result = "Err") =>
    /\ rows = call.pre
    /\ dirty = call.preDirty
    /\ ~should_quit /\ mode = "main"
    /\ status_message = <<"Failed to save file!">>

\* C12 for the document and should_quit alone: a save_to_disk that failed,
\* called by the editor or by another caller, left them as they were
C12_FailedSaveKeepsDocument ==
  (call.op \in {"save", "save_to_disk"} /\ call.result = "Err") =>
    /\ rows = call.pre
    /\ dirty = call.preDirty
    /\ ~should_quit

\* C12, the dirty flag: it goes from true to false only in a step that is a
\* save_to_disk returning Ok
C12_DirtyClearedOnlyBySave ==
  [][(dirty /\ ~dirty') => (call'.op \in {"save", "save_to_disk"} /\ call'.result = "Ok")]_vars

\* ------------------------------------------------------------------ C20
\* C20: whatever keys the editor has handled, the cursor addresses an
\* existing line and an offset of it, its end included, or is (0, 0) in a
\* document without lines.
C20_CursorOnText ==
  IF rows = <<>> THEN cursor_position = Origin ELSE ValidCursor(cursor_position, rows)

\* C20 witness: the cursor at the end of the only line of a changed
\* document, a line that has fewer clusters than characters
C20_Witness ==
  /\ mode = "main" /\ Len(rows) = 1
  /\ rows[1].len < Len(rows[1].string)
  /\ cursor_position = [x |-> rows[1].len, y |-> 0]
  /\ dirty

\* ------------------------------------------------------------------ C21
\* The status message of the warning shown with `left` presses left
Warning(left) == <<"WARNING! File has unsaved changes.", left>>

\* C21: a Ctrl-C quits only when the document is not dirty or the three key
\* events before it were Ctrl-C too; with a dirty document the first, second
\* and third Ctrl-C in a row leave the counter at 2, 1 and 0, show the
\* warning and do not quit, the fourth quits; after any other key that has
\* been handled the counter is 3 again.
C21_QuitAfterFourPresses ==
  /\ (call.op = "ctrl_c" /\ should_quit) => (~dirty \/ call.presses = 4)
  /\ (call.op = "ctrl_c" /\ dirty /\ call.presses <= 3) =>
       /\ ~should_quit
       /\ quit_times = QUIT_TIMES - call.presses
       /\ status_message = Warning(quit_times + 1)
  /\ (call.op = "ctrl_c" /\ dirty /\ call.presses = 4) => should_quit
  /\ (call.op = "ctrl_c" /\ ~dirty) => should_quit
  /\ (mode = "main" /\ call.op # "ctrl_c") => quit_times = QUIT_TIMES
  /\ should_quit => call.op = "ctrl_c"

\* C21 witness: the fourth Ctrl-C in a row has quit an editor whose document
\* is dirty
C21_Witness ==
  /\ call.op = "ctrl_c" /\ call.presses = 4 /\ dirty
  /\ should_quit /\ mode = "exited"

\* ------------------------------------------------------------------ C22
\* The last event was a Right or a Down in the search prompt, and the search
\* forward found nothing
RightFoundNothing ==
  call.op = "callback" /\ call.ch \in {"Right", "Down"} /\ ~call.found.some

\* at is the end of the last line of rs
AtEndOfText(at, rs) ==
  rs # <<>> /\ at.y = Len(rs) - 1 /\ at.x = Len(Clusters(rs, at.y))

\* C22 (as claimed): after a Right or a Down in the search prompt whose
\* search found nothing, the cursor is where it was before the key, wherever
\* that was, the end of the last line included.
C22_NoMatchKeepsCursor ==
  (RightFoundNothing /\ (rows = <<>> \/ ValidCursor(call.at, rows)))
    => cursor_position = call.at

\* C22 for a cursor that is not at the end of the last line: there the
\* step to the right is taken back
C22_NoMatchKeepsCursorInsideText ==
  AtEndOfText(call.at, rows) \/ C22_NoMatchKeepsCursor

\* ------------------------------------------------------------------ C23
\* C23: in a document that began empty or was opened, and that insert (of any
\* character, the newline too, at any position) and delete have changed, no
\* line holds a newline.
C23_NoNewlineInLine == NoNewline(rows)

\* C23 witness: a newline was inserted inside the text of a line, and the
\* delete at the same position has merged the two lines again
C23_Witness ==
  /\ call.op = "delete" /\ call.undo.op = "insert" /\ call.undo.ch = NL
  /\ call.at.y < Len(call.undo.pre)
  /\ call.at.x > 0 /\ call.at.x < Len(Clusters(call.undo.pre, call.at.y))
  /\ Len(rows) = Len(call.undo.pre) /\ Len(call.pre) = Len(rows) + 1

\* ------------------------------------------------------------------ C24
\* The use of an index or of a usize does not panic
InRange(u) ==
  CASE u.kind \in {"index", "slice", "remove"} -> 0 <= u.a /\ u.a < u.b
    [] u.kind = "insert" -> 0 <= u.a /\ u.a <= u.b
    [] u.kind = "sub" -> u.a >= u.b

\* The indices used by the call the record holds
Indexing ==
  CASE call.op = "insert" -> Document_insert_indexing(call.pre, call.at, call.ch)
    [] call.op = "insert_str" -> Document_insert_str_indexing(call.pre, call.at)
    [] call.op = "delete" -> Document_delete_indexing(call.pre, call.at)
    [] call.op = "find" -> Document_find_indexing(call.pre, call.s, call.at, call.dir)
    [] OTHER -> {}

\* C24: for every document, the empty one too, and every position, insert,
\* insert_str, delete and find (forward and backward) use no line index
\* outside [0, lineCount) and no subtraction below 0: the merge of delete
\* touches lines y and y + 1 only when y + 1 < lineCount, the split inserts at
\* y + 1 <= lineCount, and the step back of find reads a line that exists.
C24_IndicesInRange == \A u \in Indexing : InRange(u)

\* C24 witness: delete called at the end of the last line, where there is no
\* line y + 1 to merge
C24_Witness ==
  /\ call.op = "delete" /\ call.pre # <<>>
  /\ call.at.y = Len(call.pre) - 1
  /\ call.at.x = Len(Clusters(call.pre, call.at.y))
  /\ Index(call.at.y, Len(call.pre)) \in Indexing

====
